---- MODULE Spec2Model ----
(***************************************************************************)
(* A model of src/src/split.rs of git-monorepo-tools: the Runner pipeline  *)
(* controller (its stages, the process it runs in, the git repository and  *)
(* working directory it acts on) and the pure helpers of the same file.    *)
(*                                                                         *)
(* The Runner is a public API: its stages are public methods and its       *)
(* fields are public, so Spec lets the stages be invoked in any order, a    *)
(* bounded number of times, from the state Runner::new leaves.  What the    *)
(* collaborators outside the file (git_helpers, exec_helpers, repo_file)    *)
(* answer is the environment's choice.                                      *)
(*                                                                         *)
(* A Rust String is a sequence of tokens (a "text"); a literal is a        *)
(* one-token text, format!/join is concatenation.  Option<T> is a sequence *)
(* of length at most one.                                                  *)
(***************************************************************************)
EXTENDS Integers, Sequences, FiniteSets, TLC

VARIABLES
    runner,     \* the Runner struct (the fields the stages read or write)
    proc,       \* the process: running, ended by process::exit, or by panic!
    cwd,        \* the process's working directory
    repo,       \* the git repository on disk
    stage,      \* the stage most recently invoked
    calls,      \* the collaborator calls that invocation made, in order
    out,        \* the lines that invocation printed to standard output
    steps,      \* how many stages have been invoked so far
    call,       \* pure helpers: the pending call and its arguments
    ret         \* pure helpers: the value returned (or the abort)

vars == <<runner, proc, cwd, repo, stage, calls, out, steps, call, ret>>

----------------------------------------------------------------------------
(* Option and text                                                         *)

None == <<>>
Some(x) == <<x>>
IsSome(o) == o # <<>>
Unwrap(o) == o[1]

T(s) == <<s>>

\* Vec<&str>::join(" ")
RECURSIVE Join(_)
Join(v) ==
    IF v = <<>> THEN <<>>
    ELSE IF Len(v) = 1 THEN v[1]
    ELSE v[1] \o T(" ") \o Join(Tail(v))

----------------------------------------------------------------------------
(* The values the model draws from                                         *)

RefsHeads == "refs/heads/"
MainBranch == T("main")
\* a branch whose own name starts with "refs/heads/"
NestedBranch == <<RefsHeads, "topic">>
OutputBranches == {T("out")}
InputBranches == {T("feat")}
OrphanBranches == {T("out")}
RemoteRepos == {T("https://host/proj.git")}
RemoteBranches == {T("dev")}
IncludeArgs == {<<T("--path"), T("lib")>>}
IncludeAsArgs == {<<T("--path-rename"), T("lib:")>>}
ExcludeArgs == {<<T("--invert-paths"), T("--path"), T("lib/tmp")>>}
RepoFilePath == T("repo_file.rf")
InvocationDir == T("/mono/sub")
RepoRootDir == T("/mono")
\* what a failed command can leave on its standard error, as lines
Stderrs == {<<>>, <<"CONFLICT (content)">>}
\* the most stage invocations of one run
MaxSteps == 5

Opt(S) == {None} \cup {Some(x) : x \in S}

\* the refs HEAD can point to when the run starts (none: a detached HEAD)
Heads == {T(RefsHeads) \o MainBranch, T(RefsHeads) \o NestedBranch}

----------------------------------------------------------------------------
(* The collaborators: git_helpers, exec_helpers, repo_file                 *)

\* one collaborator call of a stage: what was called, with what, and how it ended
Call(fn, args, res, stderr) ==
    [fn |-> fn, args |-> args, res |-> res, stderr |-> stderr]

RepoFile_new == [remote_repo |-> None, remote_branch |-> None]

get_current_ref(g) == g.head

make_orphan_branch_and_checkout(b, g) ==
    [g EXCEPT !.head = Some(T(RefsHeads) \o b), !.hist = <<>>]

remove_index_and_files(g) ==
    [g EXCEPT !.index = "empty", !.modified = FALSE]

merge_branches(g, b) ==
    [g EXCEPT !.index = "tracked", !.hist = Append(@, <<T("merge"), b>>)]

pull(g, remote, branch) ==
    [g EXCEPT !.index = "tracked",
              !.hist = Append(@, <<T("pull"), remote>> \o branch)]

\* a history-rewriting git command that exited with status 0
execute_ok(g, args) == [g EXCEPT !.hist = Append(@, args)]

----------------------------------------------------------------------------
(* Runner::new and the process around it                                   *)

\* matches, should_rebase, should_topbase and topbase_top_ref are read by no
\* method of the file and are left out; repo_file_path is a required argument
\* of the command line ("safe to unwrap because its required").
Runner_new(is_dry_run, is_verbose, output_branch) ==
    [ repo_file_path    |-> Some(RepoFilePath),
      status            |-> 0,
      dry_run           |-> is_dry_run,
      verbose           |-> is_verbose,
      repo_file         |-> RepoFile_new,
      repo_original_ref |-> None,
      current_dir       |-> <<>>,
      repo              |-> None,
      repo_root_dir     |-> <<>>,
      include_arg_str   |-> None,
      include_as_arg_str|-> None,
      exclude_arg_str   |-> None,
      log_p             |-> IF is_dry_run THEN T("   # ") ELSE <<>>,
      input_branch      |-> None,
      output_branch     |-> output_branch ]

ProcRunning == [st |-> "running", code |-> 0, msg |-> ""]

InitRepo(head, modified) ==
    [head |-> head, index |-> "tracked", modified |-> modified, hist |-> <<>>]

NoCall == [fn |-> "none"]
NoRet == [kind |-> "none"]

\* no pure helper is being exercised
NoHelperCall ==
    /\ call = NoCall
    /\ ret = NoRet

InitProcess ==
    /\ proc = ProcRunning
    /\ cwd = InvocationDir
    /\ stage = "new"
    /\ calls = <<>>
    /\ out = <<>>
    /\ steps = 0

Init ==
    /\ \E d, v \in BOOLEAN, ob \in Opt(OutputBranches) :
          runner = Runner_new(d, v, ob)
    /\ \E h \in Opt(Heads), m \in BOOLEAN :
          repo = InitRepo(h, m)
    /\ InitProcess
    /\ NoHelperCall

Running == proc.st = "running"

\* a stage is invoked: only a live process runs one
Invoke(name) ==
    /\ Running
    /\ steps < MaxSteps
    /\ steps' = steps + 1
    /\ stage' = name

\* the stage returns the Runner r, having made the calls cs and printed ls
Return(r, cs, ls) ==
    /\ runner' = r
    /\ proc' = proc
    /\ calls' = cs
    /\ out' = ls

\* panic!: the process ends with status 101 and the message on standard error
Panic(cs, ls, msg) ==
    /\ runner' = runner
    /\ proc' = [st |-> "panicked", code |-> 101, msg |-> msg]
    /\ calls' = cs
    /\ out' = ls

exit_with_message_and_status(cs, ls, msg, status) ==
    /\ runner' = runner
    /\ proc' = [st |-> "exited", code |-> status, msg |-> ""]
    /\ calls' = cs
    /\ out' = Append(ls, msg)

\* if self.verbose { println!(...) }
Verbose(line) == IF runner.verbose THEN <<line>> ELSE <<>>

----------------------------------------------------------------------------
(* The stages of the Runner, one action per method                         *)

\* a bug: only the git binary is probed
verify_dependencies_skips_filter_repo ==
    /\ Invoke("verify_dependencies")
    /\ \E git_ok \in BOOLEAN :
         LET c1 == Call("executed_successfully", <<T("git"), T("--version")>>,
                        IF git_ok THEN "ok" ELSE "err", <<>>)
         IN  IF ~git_ok
               THEN Panic(<<c1>>, <<>>, "Failed to run. Missing dependency 'git'")
             ELSE Return(runner, <<c1>>, <<>>)
    /\ UNCHANGED <<cwd, repo, call, ret>>

verify_dependencies ==
    /\ Invoke("verify_dependencies")
    /\ \E git_ok, filter_repo_ok \in BOOLEAN :
         LET c1 == Call("executed_successfully", <<T("git"), T("--version")>>,
                        IF git_ok THEN "ok" ELSE "err", <<>>)
             c2 == Call("executed_successfully",
                        <<T("git"), T("filter-repo"), T("--version")>>,
                        IF filter_repo_ok THEN "ok" ELSE "err", <<>>)
         IN  IF ~git_ok
               THEN Panic(<<c1>>, <<>>, "Failed to run. Missing dependency 'git'")
             ELSE IF ~filter_repo_ok
               THEN Panic(<<c1, c2>>, <<>>,
                          "Failed to run. Missing dependency 'git-filter-repo'")
             ELSE Return(runner, <<c1, c2>>, <<>>)
    /\ UNCHANGED <<cwd, repo, call, ret>>

save_current_dir ==
    /\ Invoke("save_current_dir")
    /\ \E ok \in BOOLEAN :
         LET c == Call("env::current_dir", <<>>, IF ok THEN "ok" ELSE "err", <<>>)
         IN  IF ~ok
               THEN Panic(<<c>>, <<>>,
                          "Failed to find your current directory. Cannot proceed")
             ELSE Return([runner EXCEPT !.current_dir = cwd], <<c>>,
                         Verbose(runner.log_p
                                 \o T("saving current dir to return to later: ")
                                 \o cwd))
    /\ UNCHANGED <<cwd, repo, call, ret>>

\* git_helpers::get_repository_and_root_directory ends the process itself when
\* no repository encloses the directory
get_repository_from_current_dir ==
    /\ Invoke("get_repository_from_current_dir")
    /\ \E found \in BOOLEAN :
         LET c == Call("get_repository_and_root_directory", <<runner.current_dir>>,
                       IF found THEN "ok" ELSE "err", <<>>)
         IN  IF ~found
               THEN Panic(<<c>>, <<>>, "failed to find repository")
             ELSE Return([runner EXCEPT !.repo = Some("repository"),
                                        !.repo_root_dir = RepoRootDir],
                         <<c>>,
                         Verbose(runner.log_p \o T("found repo path: ")
                                 \o RepoRootDir))
    /\ UNCHANGED <<cwd, repo, call, ret>>

\* env::set_current_dir(repo_root): the empty path is no directory
changed_to_repo_root(repo_root, ok) == repo_root # <<>> /\ ok

change_to_repo_root ==
    /\ Invoke("change_to_repo_root")
    /\ IF runner.dry_run
         THEN /\ Return(runner, <<>>, <<T("cd ") \o runner.repo_root_dir>>)
              /\ cwd' = cwd
         ELSE \E ok \in BOOLEAN :
                LET changed == changed_to_repo_root(runner.repo_root_dir, ok)
                    c == Call("env::set_current_dir", <<runner.repo_root_dir>>,
                              IF changed THEN "ok" ELSE "err", <<>>)
                IN  IF ~changed
                      THEN /\ Panic(<<c>>, <<>>,
                                    "Failed to change to repository root")
                           /\ cwd' = cwd
                      ELSE /\ Return(runner, <<c>>,
                                     Verbose(runner.log_p
                                             \o T("changed to repository root ")
                                             \o runner.repo_root_dir))
                           /\ cwd' = runner.repo_root_dir
    /\ UNCHANGED <<repo, call, ret>>

DirtyMessage ==
    T("You have modified changes. Please stash or commit your changes before running this command")

\* a bug: the simulation mode is taken to make the safety check advisory
safe_to_proceed_check_lenient(c, output) ==
    IF output # <<>> /\ ~runner.dry_run
      THEN exit_with_message_and_status(<<c>>, <<>>, DirtyMessage, 1)
      ELSE Return(runner, <<c>>, <<>>)

\* if ! output.is_empty() { exit_with_message_and_status(.., 1) } self
safe_to_proceed_check(c, output) ==
    IF output # <<>>
      THEN exit_with_message_and_status(<<c>>, <<>>, DirtyMessage, 1)
      ELSE Return(runner, <<c>>, <<>>)

\* git ls-files --modified prints the modified tracked files of the working tree
safe_to_proceed ==
    /\ Invoke("safe_to_proceed")
    /\ \E res \in {"ok", "nonzero", "err"} :
         LET c == Call("execute", <<T("git"), T("ls-files"), T("--modified")>>,
                       res, <<>>)
             output == IF repo.modified THEN T("src/lib.rs") ELSE <<>>
         IN  IF res # "ok"
               THEN Panic(<<c>>, <<>>, "Failed to run ls-files")
             ELSE safe_to_proceed_check(c, output)
    /\ UNCHANGED <<cwd, repo, call, ret>>

save_current_ref ==
    /\ Invoke("save_current_ref")
    /\ LET ref == IF IsSome(runner.repo) THEN get_current_ref(repo) ELSE None
           cs == IF IsSome(runner.repo)
                   THEN <<Call("get_current_ref", <<>>, "ok", <<>>)>> ELSE <<>>
       IN  Return([runner EXCEPT !.repo_original_ref = ref], cs, <<>>)
    /\ UNCHANGED <<cwd, repo, call, ret>>

\* repo_file::parse_repo_file ends the process itself on a file it cannot parse
get_repo_file ==
    /\ Invoke("get_repo_file")
    /\ \E parsed \in BOOLEAN, rr \in Opt(RemoteRepos), rb \in Opt(RemoteBranches) :
         LET repo_file_name == Unwrap(runner.repo_file_path)
             c == Call("parse_repo_file", <<repo_file_name>>,
                       IF parsed THEN "ok" ELSE "err", <<>>)
         IN  IF ~parsed
               THEN Panic(<<c>>, <<>>, "failed to parse repo file")
             ELSE Return([runner EXCEPT !.repo_file =
                              [remote_repo |-> rr, remote_branch |-> rb]],
                         <<c>>,
                         Verbose(runner.log_p \o T("got repo file: ")
                                 \o repo_file_name))
    /\ UNCHANGED <<cwd, repo, call, ret>>

UnwrapNone == "called Option::unwrap() on a None value"

\* a bug: the result of the checkout is not tested before the cleanup
make_and_checkout_orphan_branch_cleans_anyway ==
    /\ Invoke("make_and_checkout_orphan_branch")
    /\ \E orphan_branch \in OrphanBranches :
         IF runner.dry_run
           THEN /\ Return(runner, <<>>,
                          << T("git checkout --orphan ") \o orphan_branch,
                             T("git rm -rf . > /dev/null") >>)
                /\ repo' = repo
         ELSE IF ~IsSome(runner.repo)
           THEN /\ Panic(<<>>, <<>>, "Something went horribly wrong!")
                /\ repo' = repo
         ELSE \E ok1, ok2 \in BOOLEAN :
                LET c1 == Call("make_orphan_branch_and_checkout", <<orphan_branch>>,
                               IF ok1 THEN "ok" ELSE "err", <<>>)
                    c2 == Call("remove_index_and_files", <<>>,
                               IF ok2 THEN "ok" ELSE "err", <<>>)
                    g1 == IF ok1
                            THEN make_orphan_branch_and_checkout(orphan_branch, repo)
                            ELSE repo
                IN  IF ~ok2
                      THEN /\ Panic(<<c1, c2>>, <<>>,
                              "Failed to remove git indexed files after making orphan")
                           /\ repo' = g1
                    ELSE /\ Return(runner, <<c1, c2>>,
                                   Verbose(runner.log_p
                                           \o T("created and checked out orphan branch ")
                                           \o orphan_branch))
                         /\ repo' = remove_index_and_files(g1)
    /\ UNCHANGED <<cwd, call, ret>>

make_and_checkout_orphan_branch ==
    /\ Invoke("make_and_checkout_orphan_branch")
    /\ \E orphan_branch \in OrphanBranches :
         IF runner.dry_run
           THEN /\ Return(runner, <<>>,
                          << T("git checkout --orphan ") \o orphan_branch,
                             T("git rm -rf . > /dev/null") >>)
                /\ repo' = repo
         ELSE IF ~IsSome(runner.repo)
           THEN /\ Panic(<<>>, <<>>, "Something went horribly wrong!")
                /\ repo' = repo
         ELSE \E ok1, ok2 \in BOOLEAN :
                LET c1 == Call("make_orphan_branch_and_checkout", <<orphan_branch>>,
                               IF ok1 THEN "ok" ELSE "err", <<>>)
                    c2 == Call("remove_index_and_files", <<>>,
                               IF ok2 THEN "ok" ELSE "err", <<>>)
                    g1 == make_orphan_branch_and_checkout(orphan_branch, repo)
                IN  IF ~ok1
                      THEN /\ Panic(<<c1>>, <<>>, "Failed to checkout orphan branch")
                           /\ repo' = repo
                    ELSE IF ~ok2
                      THEN /\ Panic(<<c1, c2>>, <<>>,
                              "Failed to remove git indexed files after making orphan")
                           /\ repo' = g1
                    ELSE /\ Return(runner, <<c1, c2>>,
                                   Verbose(runner.log_p
                                           \o T("created and checked out orphan branch ")
                                           \o orphan_branch))
                         /\ repo' = remove_index_and_files(g1)
    /\ UNCHANGED <<cwd, call, ret>>

UnwrapOr(o, d) == IF IsSome(o) THEN Unwrap(o) ELSE d

\* a bug: the match is keyed on the dry-run flag alone, so a set input
\* branch is merged only in dry-run and a real run pulls
populate_match_pulls_for_real(input_branch, remote_repo, remote_branch, pulling) ==
    IF runner.dry_run /\ IsSome(input_branch)
      THEN /\ Return(runner, <<>>, <<T("git merge ") \o Unwrap(input_branch)>>)
           /\ repo' = repo
    ELSE IF runner.dry_run
      THEN /\ IF IsSome(remote_repo)
                THEN Return(runner, <<>>, <<T("git pull ") \o Unwrap(remote_repo)>>)
                ELSE Panic(<<>>, <<>>, UnwrapNone)
           /\ repo' = repo
    ELSE IF ~IsSome(remote_repo)
      THEN /\ Panic(<<>>, <<pulling>>, UnwrapNone)
           /\ repo' = repo
    ELSE \E ok \in BOOLEAN :
           /\ Return(runner,
                     <<Call("pull", <<Unwrap(remote_repo)>> \o remote_branch,
                            IF ok THEN "ok" ELSE "err", <<>>)>>,
                     <<pulling>>)
           /\ repo' = IF ok THEN pull(repo, Unwrap(remote_repo), remote_branch)
                      ELSE repo

\* match (self.dry_run, &self.input_branch) { .. }
populate_match(input_branch, remote_repo, remote_branch, pulling) ==
    IF runner.dry_run /\ IsSome(input_branch)
      THEN /\ Return(runner, <<>>, <<T("git merge ") \o Unwrap(input_branch)>>)
           /\ repo' = repo
    ELSE IF runner.dry_run
      THEN /\ IF IsSome(remote_repo)
                THEN Return(runner, <<>>, <<T("git pull ") \o Unwrap(remote_repo)>>)
                ELSE Panic(<<>>, <<>>, UnwrapNone)
           /\ repo' = repo
    ELSE IF IsSome(input_branch)
      THEN \E ok \in BOOLEAN :
             /\ Return(runner,
                       <<Call("merge_branches", <<Unwrap(input_branch)>>,
                              IF ok THEN "ok" ELSE "err", <<>>)>>,
                       <<runner.log_p \o T("Merging ") \o Unwrap(input_branch)>>)
             /\ repo' = IF ok THEN merge_branches(repo, Unwrap(input_branch))
                        ELSE repo
    ELSE IF ~IsSome(remote_repo)
      THEN /\ Panic(<<>>, <<pulling>>, UnwrapNone)
           /\ repo' = repo
    ELSE \E ok \in BOOLEAN :
           /\ Return(runner,
                     <<Call("pull", <<Unwrap(remote_repo)>> \o remote_branch,
                            IF ok THEN "ok" ELSE "err", <<>>)>>,
                     <<pulling>>)
           /\ repo' = IF ok THEN pull(repo, Unwrap(remote_repo), remote_branch)
                      ELSE repo

populate_empty_branch_with_remote_commits ==
    /\ Invoke("populate_empty_branch_with_remote_commits")
    /\ LET remote_repo == runner.repo_file.remote_repo
           remote_branch == runner.repo_file.remote_branch
           pulling == runner.log_p \o T("Pulling from ")
                      \o UnwrapOr(remote_repo, T("?")) \o T(" ")
                      \o UnwrapOr(remote_branch, <<>>)
       IN  IF ~IsSome(runner.repo)
             THEN /\ Panic(<<>>, <<>>, "Failed to find repo?")
                  /\ repo' = repo
             ELSE populate_match(runner.input_branch, remote_repo, remote_branch,
                                 pulling)
    /\ UNCHANGED <<cwd, call, ret>>

\* String::replace(pat, ""): every occurrence of the token pat is removed
Replace(text, pat) == SelectSeq(text, LAMBDA t : t # pat)

\* a bug: the skipped rebase is recorded as a failed one
rebase_without_ref_fails ==
    /\ Return([runner EXCEPT !.status = 1], <<>>,
              <<T("Failed to get repo original ref. Not going to rebase")>>)
    /\ repo' = repo

\* a bug: the dry-run command is printed before the ref is looked at
rebase_without_ref_prints_command ==
    /\ Return(runner, <<>>,
              IF runner.dry_run
                THEN <<T("git rebase ")>>
                ELSE <<T("Failed to get repo original ref. Not going to rebase")>>)
    /\ repo' = repo

\* a bug: the missing ref is taken for a fatal error
rebase_without_ref_aborts ==
    /\ Panic(<<>>, <<>>, "Failed to get repo original ref")
    /\ repo' = repo

\* None => { println!(..); return self; }
rebase_without_ref ==
    /\ Return(runner, <<>>,
              <<T("Failed to get repo original ref. Not going to rebase")>>)
    /\ repo' = repo

rebase ==
    /\ Invoke("rebase")
    /\ IF ~IsSome(runner.repo_original_ref)
         THEN rebase_without_ref
         ELSE
           LET upstream_branch == Replace(Unwrap(runner.repo_original_ref), RefsHeads)
               said == Verbose(T("rebasing onto ") \o upstream_branch)
               args == <<T("git"), T("rebase"), upstream_branch>>
           IN  IF runner.dry_run
                 THEN /\ Return(runner, <<>>,
                                said \o <<T("git rebase ") \o upstream_branch>>)
                      /\ repo' = repo
               ELSE
                 \E res \in {"ok", "nonzero", "err"}, stderr \in Stderrs :
                      LET c == Call("execute", args, res,
                                    IF res = "nonzero" THEN stderr ELSE <<>>)
                          \* o.stderr.lines().next().unwrap()
                          err == IF res = "err" THEN T("execution error")
                                 ELSE T(stderr[1])
                          err_details == IF runner.verbose THEN err ELSE <<>>
                      IN  IF res = "ok"
                            THEN /\ Return(runner, <<c>>, said)
                                 /\ repo' = execute_ok(repo, args)
                          ELSE IF res = "nonzero" /\ stderr = <<>>
                            THEN /\ Panic(<<c>>, said, UnwrapNone)
                                 /\ repo' = repo
                          ELSE /\ Return([runner EXCEPT !.status = 1], <<c>>,
                                         said \o <<T("Failed to rebase\n")
                                                   \o err_details>>)
                               /\ repo' = repo
    /\ UNCHANGED <<cwd, call, ret>>

\* for arg in args { arg_vec.push(arg) }
RECURSIVE PushAll(_, _)
PushAll(arg_vec, args) ==
    IF args = <<>> THEN arg_vec
    ELSE PushAll(Append(arg_vec, Head(args)), Tail(args))

\* a bug: an argument already in the vector is not pushed again
RECURSIVE PushNew(_, _)
PushNew(arg_vec, args) ==
    IF args = <<>> THEN arg_vec
    ELSE IF \E i \in DOMAIN arg_vec : arg_vec[i] = Head(args)
      THEN PushNew(arg_vec, Tail(args))
    ELSE PushNew(Append(arg_vec, Head(args)), Tail(args))

generate_filter_arg_vec_dedups(args, output_branch) ==
    LET v0 == <<T("git"), T("filter-repo")>>
        v1 == PushNew(v0, args)
        v2 == Append(v1, T("--refs"))
        v3 == Append(v2, output_branch)
    IN  Append(v3, T("--force"))

generate_filter_arg_vec(args, output_branch) ==
    LET v0 == <<T("git"), T("filter-repo")>>
        v1 == PushAll(v0, args)
        v2 == Append(v1, T("--refs"))
        v3 == Append(v2, output_branch)
    IN  Append(v3, T("--force"))

\* a bug: the dry-run early return is missing
run_filter_ignores_dry_run(arg_vec, verbose_log) ==
    \E res \in {"ok", "nonzero", "err"} :
      LET c == Call("execute", arg_vec, res, <<>>)
      IN  IF res # "ok"
            THEN /\ Panic(<<c>>, Verbose(verbose_log), "Failed to execute")
                 /\ repo' = repo
            ELSE /\ Return(runner, <<c>>, Verbose(verbose_log))
                 /\ repo' = execute_ok(repo, arg_vec)

\* a bug: only an execution error counts as failure, the exit status is not read
run_filter_ignores_exit_status(arg_vec, verbose_log) ==
    IF runner.dry_run
      THEN /\ Return(runner, <<>>, <<Join(arg_vec)>>)
           /\ repo' = repo
      ELSE \E res \in {"ok", "nonzero", "err"} :
             LET c == Call("execute", arg_vec, res, <<>>)
             IN  IF res = "err"
                   THEN /\ Panic(<<c>>, Verbose(verbose_log), "Failed to execute")
                        /\ repo' = repo
                   ELSE /\ Return(runner, <<c>>, Verbose(verbose_log))
                        /\ repo' = IF res = "ok" THEN execute_ok(repo, arg_vec)
                                   ELSE repo

run_filter(arg_vec, verbose_log) ==
    IF runner.dry_run
      THEN /\ Return(runner, <<>>, <<Join(arg_vec)>>)
           /\ repo' = repo
      ELSE \E res \in {"ok", "nonzero", "err"} :
                LET c == Call("execute", arg_vec, res, <<>>)
                IN  IF res # "ok"
                      THEN /\ Panic(<<c>>, Verbose(verbose_log), "Failed to execute")
                           /\ repo' = repo
                      ELSE /\ Return(runner, <<c>>, Verbose(verbose_log))
                           /\ repo' = execute_ok(repo, arg_vec)

filter_include ==
    /\ Invoke("filter_include")
    /\ IF ~IsSome(runner.include_arg_str)
         THEN Return(runner, <<>>, <<>>) /\ repo' = repo
       ELSE IF ~IsSome(runner.output_branch)
         THEN Panic(<<>>, <<>>, UnwrapNone) /\ repo' = repo
       ELSE run_filter(generate_filter_arg_vec(Unwrap(runner.include_arg_str),
                                               Unwrap(runner.output_branch)),
                       T("Filtering include"))
    /\ UNCHANGED <<cwd, call, ret>>

\* a bug: the include-as pass is keyed on the include rule set
filter_include_as_keyed_on_include ==
    /\ Invoke("filter_include_as")
    /\ IF ~IsSome(runner.include_arg_str)
         THEN Return(runner, <<>>, <<>>) /\ repo' = repo
       ELSE IF ~IsSome(runner.output_branch)
         THEN Panic(<<>>, <<>>, UnwrapNone) /\ repo' = repo
       ELSE run_filter(generate_filter_arg_vec(Unwrap(runner.include_arg_str),
                                               Unwrap(runner.output_branch)),
                       T("Filtering include_as"))
    /\ UNCHANGED <<cwd, call, ret>>

filter_include_as ==
    /\ Invoke("filter_include_as")
    /\ IF ~IsSome(runner.include_as_arg_str)
         THEN Return(runner, <<>>, <<>>) /\ repo' = repo
       ELSE IF ~IsSome(runner.output_branch)
         THEN Panic(<<>>, <<>>, UnwrapNone) /\ repo' = repo
       ELSE run_filter(generate_filter_arg_vec(Unwrap(runner.include_as_arg_str),
                                               Unwrap(runner.output_branch)),
                       T("Filtering include_as"))
    /\ UNCHANGED <<cwd, call, ret>>

filter_exclude ==
    /\ Invoke("filter_exclude")
    /\ IF ~IsSome(runner.exclude_arg_str)
         THEN Return(runner, <<>>, <<>>) /\ repo' = repo
       ELSE IF ~IsSome(runner.output_branch)
         THEN Panic(<<>>, <<>>, UnwrapNone) /\ repo' = repo
       ELSE run_filter(generate_filter_arg_vec(Unwrap(runner.exclude_arg_str),
                                               Unwrap(runner.output_branch)),
                       T("Filtering exclude"))
    /\ UNCHANGED <<cwd, call, ret>>

\* The sub-command that owns the Runner fills in its public fields between
\* stages: the branch names it resolved and the filter arguments it generated.
assign_public_fields ==
    /\ Invoke("assign_public_fields")
    /\ \/ \E v \in Opt(InputBranches) :
            Return([runner EXCEPT !.input_branch = v], <<>>, <<>>)
       \/ \E v \in Opt(OutputBranches) :
            Return([runner EXCEPT !.output_branch = v], <<>>, <<>>)
       \/ \E v \in Opt(IncludeArgs) :
            Return([runner EXCEPT !.include_arg_str = v], <<>>, <<>>)
       \/ \E v \in Opt(IncludeAsArgs) :
            Return([runner EXCEPT !.include_as_arg_str = v], <<>>, <<>>)
       \/ \E v \in Opt(ExcludeArgs) :
            Return([runner EXCEPT !.exclude_arg_str = v], <<>>, <<>>)
    /\ UNCHANGED <<cwd, repo, call, ret>>

Next ==
    \/ verify_dependencies
    \/ save_current_dir
    \/ get_repository_from_current_dir
    \/ change_to_repo_root
    \/ safe_to_proceed
    \/ save_current_ref
    \/ get_repo_file
    \/ make_and_checkout_orphan_branch
    \/ populate_empty_branch_with_remote_commits
    \/ filter_include
    \/ filter_include_as
    \/ filter_exclude
    \/ rebase
    \/ assign_public_fields

Spec == Init /\ [][Next]_vars

----------------------------------------------------------------------------
(* The pure helpers.  A helper is exercised by a specification of its own:  *)
(* Init draws the arguments into `call`, the one action applies the helper  *)
(* and leaves what it returned in `ret`.                                    *)

Returned(v) == [kind |-> "ok", val |-> v]
Aborted == [kind |-> "panic"]

\* no Runner is at work while a helper is exercised
NoRunner ==
    /\ runner = Runner_new(FALSE, FALSE, None)
    /\ repo = InitRepo(None, FALSE)
    /\ InitProcess

\* the longest rule array drawn
MaxRules == 5
RuleTokens == {T("a"), T("b")}

SeqsUpTo(S, n) == UNION {[1..k -> S] : k \in 0..n}

\* a bug: the emptiness test is missing
include_var_valid_accepts_empty(var, can_be_single) ==
    LET vlen == Len(var)
    IN  IF vlen = 1 /\ can_be_single THEN TRUE
        ELSE IF vlen % 2 = 0 THEN TRUE
        ELSE FALSE

include_var_valid(var, can_be_single) ==
    LET vlen == Len(var)
    IN  IF vlen = 1 /\ can_be_single THEN TRUE
        ELSE IF vlen >= 1 /\ vlen % 2 = 0 THEN TRUE
        ELSE FALSE

InitRules ==
    /\ NoRunner
    /\ \E v \in SeqsUpTo(RuleTokens, MaxRules), b \in BOOLEAN :
         call = [fn |-> "include_var_valid", var |-> v, can_be_single |-> b]
    /\ ret = NoRet

call_include_var_valid ==
    /\ call.fn = "include_var_valid"
    /\ ret = NoRet
    /\ ret' = Returned(include_var_valid(call.var, call.can_be_single))
    /\ UNCHANGED <<runner, proc, cwd, repo, stage, calls, out, steps, call>>

NextRules == call_include_var_valid

SpecRules == InitRules /\ [][NextRules]_vars

\* a bug: the single-element allowance is not passed on
panic_if_array_invalid_never_single(var, can_be_single, varname) ==
    IF IsSome(var) /\ ~include_var_valid(Unwrap(var), FALSE)
      THEN Aborted
      ELSE Returned("unit")

\* match var { Some(v) => if ! include_var_valid(..) { panic!(..) }, _ => () }
panic_if_array_invalid(var, can_be_single, varname) ==
    IF IsSome(var) /\ ~include_var_valid(Unwrap(var), can_be_single)
      THEN Aborted
      ELSE Returned("unit")

VarNames == {"include", "include_as", "exclude"}

InitArrays ==
    /\ NoRunner
    /\ \E v \in Opt(SeqsUpTo(RuleTokens, MaxRules)), b \in BOOLEAN,
          n \in VarNames :
         call = [fn |-> "panic_if_array_invalid", var |-> v,
                 can_be_single |-> b, varname |-> n]
    /\ ret = NoRet

call_panic_if_array_invalid ==
    /\ call.fn = "panic_if_array_invalid"
    /\ ret = NoRet
    /\ ret' = panic_if_array_invalid(call.var, call.can_be_single, call.varname)
    /\ UNCHANGED <<runner, proc, cwd, repo, stage, calls, out, steps, call>>

NextArrays == call_panic_if_array_invalid

SpecArrays == InitArrays /\ [][NextArrays]_vars

\* the longest raw argument sequence drawn
MaxArgs == 3
RawArgs == {T("--path"), T("lib"), T("--force"), T("out")}

InitFilterArgs ==
    /\ NoRunner
    /\ \E a \in SeqsUpTo(RawArgs, MaxArgs), b \in OutputBranches \cup InputBranches :
         call = [fn |-> "generate_filter_arg_vec", args |-> a, output_branch |-> b]
    /\ ret = NoRet

call_generate_filter_arg_vec ==
    /\ call.fn = "generate_filter_arg_vec"
    /\ ret = NoRet
    /\ ret' = Returned(generate_filter_arg_vec(call.args, call.output_branch))
    /\ UNCHANGED <<runner, proc, cwd, repo, stage, calls, out, steps, call>>

NextFilterArgs == call_generate_filter_arg_vec

SpecFilterArgs == InitFilterArgs /\ [][NextFilterArgs]_vars

\* Remote locators are texts whose tokens are single characters.
Slash == "/"
Backslash == "\\"
Dot == "."
Whitespace == {" ", "\t", "\n"}

\* str::trim_end
RECURSIVE trim_end(_)
trim_end(s) ==
    IF s # <<>> /\ s[Len(s)] \in Whitespace
      THEN trim_end(SubSeq(s, 1, Len(s) - 1))
      ELSE s

starts_with(s, prefix) ==
    Len(s) >= Len(prefix) /\ SubSeq(s, 1, Len(prefix)) = prefix

ends_with(s, c) == s # <<>> /\ s[Len(s)] = c

contains(s, c) == \E i \in DOMAIN s : s[i] = c

\* String::pop
pop(s) == IF s = <<>> THEN s ELSE SubSeq(s, 1, Len(s) - 1)

\* s.rsplit(slash_type).next(): the piece after the last slash_type, found by
\* scanning from the end
RECURSIVE get_string_after_last_slash(_, _)
get_string_after_last_slash(s, slash_type) ==
    IF s = <<>> THEN <<>>
    ELSE IF s[Len(s)] = slash_type THEN <<>>
    ELSE Append(get_string_after_last_slash(SubSeq(s, 1, Len(s) - 1), slash_type),
                s[Len(s)])

\* a bug: the name is cut at its last dot
RECURSIVE get_string_before_last_dot(_)
get_string_before_last_dot(s) ==
    IF s = <<>> THEN <<>>
    ELSE IF s[Len(s)] = Dot THEN SubSeq(s, 1, Len(s) - 1)
    ELSE IF ~contains(s, Dot) THEN s
    ELSE get_string_before_last_dot(SubSeq(s, 1, Len(s) - 1))

\* s.split('.').next(): the piece before the first dot, found by scanning
\* from the start
RECURSIVE get_string_before_first_dot(_)
get_string_before_first_dot(s) ==
    IF s = <<>> THEN <<>>
    ELSE IF Head(s) = Dot THEN <<>>
    ELSE <<Head(s)>> \o get_string_before_first_dot(Tail(s))

Ssh == <<"s", "s", "h", ":", "/", "/">>
Git == <<"g", "i", "t", ":", "/", "/">>
Http == <<"h", "t", "t", "p", ":", "/", "/">>
Https == <<"h", "t", "t", "p", "s", ":", "/", "/">>
Ftp == <<"f", "t", "p", ":", "/", "/">>
Sftp == <<"s", "f", "t", "p", ":", "/", "/">>
File == <<"f", "i", "l", "e", ":", "/", "/">>

is_valid_remote_repo(remote_repo) ==
    \/ starts_with(remote_repo, Ssh)
    \/ starts_with(remote_repo, Git)
    \/ starts_with(remote_repo, Http)
    \/ starts_with(remote_repo, Https)
    \/ starts_with(remote_repo, Ftp)
    \/ starts_with(remote_repo, Sftp)
    \/ starts_with(remote_repo, File)
    \/ starts_with(remote_repo, <<Dot>>)
    \/ starts_with(remote_repo, <<Slash>>)

try_get_repo_name_with_slash_type(remote_repo, slash_type) ==
    LET s0 == trim_end(remote_repo)
        s1 == IF ~is_valid_remote_repo(remote_repo) THEN <<>> ELSE s0
        s2 == IF ends_with(s1, slash_type) THEN pop(s1) ELSE s1
        s3 == IF ~contains(s2, slash_type) THEN <<>> ELSE s2
        s4 == get_string_after_last_slash(s3, slash_type)
    IN  get_string_before_first_dot(s4)

\* a bug: the other separator is never tried
try_get_repo_name_native_only(remote_repo, main_separator) ==
    LET repo_name == try_get_repo_name_with_slash_type(remote_repo, main_separator)
    IN  IF repo_name = <<>> THEN Aborted ELSE Returned(repo_name)

\* a bug: the test for an empty name after the retry is missing
try_get_repo_name_returns_empty(remote_repo, main_separator) ==
    LET slash_type == main_separator
        next_slash_type == IF slash_type = Slash THEN Backslash ELSE Slash
        first == try_get_repo_name_with_slash_type(remote_repo, slash_type)
        repo_name == IF first = <<>>
                       THEN try_get_repo_name_with_slash_type(remote_repo,
                                                              next_slash_type)
                       ELSE first
    IN  Returned(repo_name)

\* MAIN_SEPARATOR is a constant of the platform the program is built for
try_get_repo_name_from_remote_repo(remote_repo, main_separator) ==
    LET slash_type == main_separator
        next_slash_type == IF slash_type = Slash THEN Backslash ELSE Slash
        first == try_get_repo_name_with_slash_type(remote_repo, slash_type)
        repo_name == IF first = <<>>
                       THEN try_get_repo_name_with_slash_type(remote_repo,
                                                              next_slash_type)
                       ELSE first
    IN  IF repo_name = <<>> THEN Aborted ELSE Returned(repo_name)

\* the locators drawn: a scheme (or none, or a drive letter no scheme matches),
\* then up to MaxTail characters, then possibly ".git"
MaxTail == 3
TailChars == {Slash, Backslash, Dot, " ", "r"}
Schemes == {<<>>, Ssh, Git, Http, Https, Ftp, Sftp, File, <<"C", ":">>}
Suffixes == {<<>>, <<Dot, "g", "i", "t">>}
Locators ==
    {p \o t \o x : p \in Schemes, t \in SeqsUpTo(TailChars, MaxTail), x \in Suffixes}

InitRepoName ==
    /\ NoRunner
    /\ \E l \in Locators, sep \in {Slash, Backslash} :
         call = [fn |-> "try_get_repo_name_from_remote_repo",
                 remote_repo |-> l, main_separator |-> sep]
    /\ ret = NoRet

call_try_get_repo_name_from_remote_repo ==
    /\ call.fn = "try_get_repo_name_from_remote_repo"
    /\ ret = NoRet
    /\ ret' = try_get_repo_name_from_remote_repo(call.remote_repo,
                                                 call.main_separator)
    /\ UNCHANGED <<runner, proc, cwd, repo, stage, calls, out, steps, call>>

NextRepoName == call_try_get_repo_name_from_remote_repo

SpecRepoName == InitRepoName /\ [][NextRepoName]_vars

----------------------------------------------------------------------------
(* The claims about the stages                                             *)

MutatingStages ==
    { "change_to_repo_root", "make_and_checkout_orphan_branch",
      "populate_empty_branch_with_remote_commits",
      "filter_include", "filter_include_as", "filter_exclude", "rebase" }

\* C1: with dry_run set, every invocation of a mutating stage makes no
\* collaborator call at all (no git porcelain operation, no external command),
\* leaves the working directory where it was and leaves the repository as it
\* was; so the same holds of any sequence of them.
C1_DryRunMutatesNothing ==
    [][ (runner.dry_run /\ stage' \in MutatingStages)
          => (calls' = <<>> /\ cwd' = cwd /\ repo' = repo) ]_vars

\* a run in which dry-run stages printed their commands after the repository
\* was found and its ref captured
C1_Witness ==
    /\ runner.dry_run
    /\ stage = "rebase"
    /\ IsSome(runner.repo)
    /\ IsSome(runner.repo_original_ref)
    /\ out # <<>>
    /\ steps >= 3

\* C2: when the modified-files query succeeds and the working tree has a
\* modified tracked file, safe_to_proceed prints the user message and ends the
\* process with exit status 1, in dry-run as in real mode; and once the
\* process has ended no stage runs any more.
C2_DirtyTreeExits ==
    [][ /\ (proc.st # "running" => vars' = vars)
        /\ (stage' = "safe_to_proceed" /\ repo.modified /\ calls'[1].res = "ok")
             => /\ proc' = [st |-> "exited", code |-> 1, msg |-> ""]
                /\ out' = <<DirtyMessage>>
                /\ Len(calls') = 1 ]_vars

\* a dry run that reached safe_to_proceed through earlier stages and was ended
\* by it on a dirty tree
C2_Witness ==
    /\ runner.dry_run
    /\ stage = "safe_to_proceed"
    /\ repo.modified
    /\ proc.st = "exited"
    /\ proc.code = 1
    /\ steps >= 2

IsFailedRebase(cs) ==
    /\ Len(cs) = 1
    /\ cs[1].fn = "execute"
    /\ cs[1].args[2] = T("rebase")
    /\ cs[1].res # "ok"

Reported(ls) ==
    \E i \in DOMAIN ls : ls[i] # <<>> /\ ls[i][1] = "Failed to rebase\n"

\* C3: in real mode a failed rebase command (an execution error, or a non-zero
\* exit status with any standard error text, the empty text included) never
\* aborts the process: the stage returns with the status set non-zero, reports
\* the failure, and leaves the history already rewritten as it was.
C3_FailedRebaseNeverAborts ==
    [][ (stage' = "rebase" /\ ~runner.dry_run /\ IsFailedRebase(calls'))
          => /\ proc'.st = "running"
             /\ runner'.status # 0
             /\ Reported(out')
             /\ repo'.hist = repo.hist ]_vars

\* C4: the terminal status is 0 at construction, and a stage changes it only
\* when that stage is a real (not dry-run) rebase with a captured ref whose
\* rebase command failed.
C4_StatusOnlyByFailedRebase ==
    /\ runner.status = 0
    /\ [][ runner'.status # runner.status
             => /\ stage' = "rebase"
                /\ ~runner.dry_run
                /\ IsSome(runner.repo_original_ref)
                /\ Len(calls') = 1
                /\ calls'[1].args[2] = T("rebase")
                /\ calls'[1].res # "ok"
                /\ runner'.status # 0 ]_vars

\* a run whose rebase failed and which then went on with another stage, the
\* status still set
C4_Witness ==
    /\ runner.status # 0
    /\ stage # "rebase"
    /\ proc.st = "running"

IsFatalFailure(c) ==
    /\ c.res # "ok"
    /\ \/ c.fn \in {"make_orphan_branch_and_checkout", "remove_index_and_files"}
       \/ c.fn = "execute" /\ c.args[2] = T("filter-repo")

\* C5: in real mode a failed orphan checkout, a failed index/working-tree
\* cleanup or a failed filter invocation (execution error or non-zero exit
\* status) aborts the process in that stage: the failed call is the last call
\* the stage makes, and no stage runs afterwards.
C5_MutationFailureIsFatal ==
    [][ /\ (proc.st # "running" => vars' = vars)
        /\ \A i \in DOMAIN calls' :
             (~runner.dry_run /\ IsFatalFailure(calls'[i]))
               => /\ proc'.st = "panicked"
                  /\ i = Len(calls')
                  /\ runner' = runner ]_vars

\* a filter pass that exited non-zero after an earlier pass had rewritten
\* history
C5_Witness ==
    /\ proc.st = "panicked"
    /\ stage \in {"filter_include", "filter_include_as", "filter_exclude"}
    /\ calls # <<>>
    /\ calls[1].res = "nonzero"
    /\ repo.hist # <<>>

CountCalls(cs, fn) == Cardinality({i \in DOMAIN cs : cs[i].fn = fn})

\* the choice the claim states, for an invocation in the state it left
PopulateFollowsChoice ==
    IF IsSome(runner.input_branch)
      THEN IF runner.dry_run
             THEN out = <<T("git merge ") \o Unwrap(runner.input_branch)>>
                  /\ calls = <<>>
             ELSE CountCalls(calls, "merge_branches") = 1
                  /\ CountCalls(calls, "pull") = 0
                  /\ calls[1].args = <<Unwrap(runner.input_branch)>>
      ELSE IF runner.dry_run
             THEN /\ Len(out) = 1
                  /\ out[1][1] = "git pull "
                  /\ calls = <<>>
             ELSE CountCalls(calls, "pull") = 1
                  /\ CountCalls(calls, "merge_branches") = 0

\* C10 as stated: every invocation of the history-population stage performs
\* exactly one of merge and pull, chosen by whether an input branch is set
\* (in dry-run: prints exactly that one command).
C10_ExactlyOneAlways ==
    stage = "populate_empty_branch_with_remote_commits" => PopulateFollowsChoice

\* C10 amended: an invocation performs at most one of the two; one that
\* returns performs (in dry-run: prints) exactly the one the input branch
\* selects; and it aborts, having performed and printed neither command,
\* exactly when the repository handle is absent, or no input branch is set
\* and the repo-file names no remote repository.
C10_ExactlyOneWhenReturns ==
    stage = "populate_empty_branch_with_remote_commits"
      => /\ CountCalls(calls, "merge_branches") + CountCalls(calls, "pull") <= 1
         /\ Len(calls) <= 1
         /\ proc.st = "running" => PopulateFollowsChoice
         /\ proc.st = "panicked"
              <=> \/ ~IsSome(runner.repo)
                  \/ /\ ~IsSome(runner.input_branch)
                     /\ ~IsSome(runner.repo_file.remote_repo)
         /\ proc.st = "panicked"
              => /\ calls = <<>>
                 /\ \A i \in DOMAIN out :
                      out[i][1] \notin {"git merge ", "git pull "}

\* a real pull from the repo-file's remote, no input branch being set
C10_Witness ==
    /\ stage = "populate_empty_branch_with_remote_commits"
    /\ ~runner.dry_run
    /\ ~IsSome(runner.input_branch)
    /\ CountCalls(calls, "pull") = 1
    /\ repo.hist # <<>>

----------------------------------------------------------------------------
(* The claims about the pure helpers                                       *)

\* C6: include_var_valid is true for every array of even length >= 2 whatever
\* can_be_single is, equals can_be_single for length 1, and is false for
\* length 0 and for every odd length >= 3.
C6_ValidityByLength ==
    ret # NoRet =>
      LET n == Len(call.var)
      IN  /\ (n >= 2 /\ n % 2 = 0) => ret = Returned(TRUE)
          /\ n = 1 => ret = Returned(call.can_be_single)
          /\ (n = 0 \/ (n >= 3 /\ n % 2 = 1)) => ret = Returned(FALSE)

\* the empty array was judged, a single element not being allowed
C6_Witness ==
    /\ ret = Returned(FALSE)
    /\ call.var = <<>>
    /\ ~call.can_be_single

\* C7: the vector returned is the engine name ("git", "filter-repo"), then
\* the arguments as given, in order, each of them, then "--refs", the branch
\* name and "--force" as its last three elements.
C7_ArgVecLayout ==
    ret # NoRet =>
      LET v == ret.val
          n == Len(call.args)
      IN  /\ Len(v) = n + 5
          /\ v[1] = T("git")
          /\ v[2] = T("filter-repo")
          /\ \A i \in 1..n : v[2 + i] = call.args[i]
          /\ v[n + 3] = T("--refs")
          /\ v[n + 4] = call.output_branch
          /\ v[n + 5] = T("--force")

\* arguments that repeat one another and repeat the trailer's own words
C7_Witness ==
    /\ ret # NoRet
    /\ Len(call.args) = 3
    /\ call.args[1] = call.args[2]
    /\ call.args[3] = call.output_branch

\* What the claims say of a locator, stated by position in the text.
LastIndexOf(s, c) ==
    CHOOSE i \in 0..Len(s) :
      /\ i > 0 => s[i] = c
      /\ \A j \in (i + 1)..Len(s) : s[j] # c

FirstIndexOf(s, c) ==
    CHOOSE i \in 1..(Len(s) + 1) :
      /\ i <= Len(s) => s[i] = c
      /\ \A j \in 1..(i - 1) : s[j] # c

TextAfterLast(s, c) == SubSeq(s, LastIndexOf(s, c) + 1, Len(s))
TextBeforeFirst(s, c) == SubSeq(s, 1, FirstIndexOf(s, c) - 1)

Trimmed(s) ==
    LET k == CHOOSE i \in 0..Len(s) :
               /\ i > 0 => s[i] \notin Whitespace
               /\ \A j \in (i + 1)..Len(s) : s[j] \in Whitespace
    IN  SubSeq(s, 1, k)

\* the locator with trailing whitespace, then one trailing separator, removed
TrimmedOf(loc, sep) ==
    LET t == Trimmed(loc)
    IN  IF t # <<>> /\ t[Len(t)] = sep THEN SubSeq(t, 1, Len(t) - 1) ELSE t

\* the name one separator yields: empty when the locator is not recognized or
\* the trimmed locator has no such separator
NameWith(loc, sep) ==
    IF ~is_valid_remote_repo(loc) \/ ~contains(TrimmedOf(loc, sep), sep)
      THEN <<>>
      ELSE TextBeforeFirst(TextAfterLast(TrimmedOf(loc, sep), sep), Dot)

EndsWith(s, suffix) ==
    Len(s) >= Len(suffix) /\ SubSeq(s, Len(s) - Len(suffix) + 1, Len(s)) = suffix

OtherSeparator(sep) == IF sep = Slash THEN Backslash ELSE Slash

RepoNames == {<<"r">>, <<"r", "r">>}

\* C8 as stated: for a recognized locator that contains the native separator
\* the helper returns the text after the locator's last native separator, cut
\* at its first '.'.
C8_NameAfterLastSeparator ==
    ( /\ ret # NoRet
      /\ is_valid_remote_repo(call.remote_repo)
      /\ contains(call.remote_repo, call.main_separator) )
      => ret = Returned(TextBeforeFirst(TextAfterLast(call.remote_repo,
                                                      call.main_separator), Dot))

\* C8 amended: for a recognized locator that contains the native separator,
\* take the locator with its trailing whitespace and then one trailing native
\* separator removed; if that text still contains the native separator and
\* the text after its last native separator, cut at its first '.', is not
\* empty, the helper returns it.  In particular a locator ending in
\* <separator>reponame or <separator>reponame.git yields reponame.
C8_NameAfterTrimming ==
    ( /\ ret # NoRet
      /\ is_valid_remote_repo(call.remote_repo)
      /\ contains(call.remote_repo, call.main_separator) )
      => LET loc == call.remote_repo
             sep == call.main_separator
             t == TrimmedOf(loc, sep)
             name == TextBeforeFirst(TextAfterLast(t, sep), Dot)
         IN  /\ (contains(t, sep) /\ name # <<>>) => ret = Returned(name)
             /\ \A n \in RepoNames, x \in Suffixes :
                  EndsWith(loc, <<sep>> \o n \o x) => ret = Returned(n)

\* "https://r/": the trailing separator is dropped before the name is taken
C8_Witness ==
    /\ call.main_separator = Slash
    /\ call.remote_repo = Https \o <<"r", "/">>
    /\ ret = Returned(<<"r">>)

\* C9 as stated: a recognized locator written with the other separator only
\* always yields a name through the retry; an unrecognized locator without
\* any separator aborts; so does every locator for which neither separator
\* yields a name.
C9_FallbackAlwaysSucceeds ==
    ret # NoRet =>
      LET loc == call.remote_repo
          sep == call.main_separator
          other == OtherSeparator(sep)
      IN  /\ (is_valid_remote_repo(loc) /\ ~contains(loc, sep) /\ contains(loc, other))
               => ret.kind = "ok"
          /\ (~is_valid_remote_repo(loc) /\ ~contains(loc, Slash)
                /\ ~contains(loc, Backslash))
               => ret = Aborted
          /\ (NameWith(loc, sep) = <<>> /\ NameWith(loc, other) = <<>>)
               => ret = Aborted

\* C9 amended: the native separator is tried first and its name, when not
\* empty, is the result; a locator with no native separator gets the result
\* of the retry with the other separator, which is a name exactly when the
\* locator is recognized, still contains the other separator once trailing
\* whitespace and one trailing such separator are removed, and has a non-empty
\* text between its last such separator and the first '.' after it; the two
\* abort cases are as stated.
C9_FallbackSucceedsOnName ==
    ret # NoRet =>
      LET loc == call.remote_repo
          sep == call.main_separator
          other == OtherSeparator(sep)
      IN  /\ NameWith(loc, sep) # <<>> => ret = Returned(NameWith(loc, sep))
          /\ ~contains(loc, sep)
               => ret = IF NameWith(loc, other) # <<>>
                          THEN Returned(NameWith(loc, other))
                          ELSE Aborted
          /\ (~is_valid_remote_repo(loc) /\ ~contains(loc, Slash)
                /\ ~contains(loc, Backslash))
               => ret = Aborted
          /\ (NameWith(loc, sep) = <<>> /\ NameWith(loc, other) = <<>>)
               => ret = Aborted

\* ".\r.git" where '/' is native: the retry with '\' names the repository
C9_Witness ==
    /\ call.main_separator = Slash
    /\ call.remote_repo = <<Dot, Backslash, "r">> \o <<Dot, "g", "i", "t">>
    /\ ret = Returned(<<"r">>)

----------------------------------------------------------------------------
(* Dry-run against real mode                                               *)

\* the command line a user would type for one collaborator call
CommandLine(c) ==
    CASE c.fn = "env::set_current_dir" -> T("cd ") \o c.args[1]
      [] c.fn = "make_orphan_branch_and_checkout" ->
           T("git checkout --orphan ") \o c.args[1]
      [] c.fn = "remove_index_and_files" -> T("git rm -rf . > /dev/null")
      [] c.fn = "merge_branches" -> T("git merge ") \o c.args[1]
      [] c.fn = "pull" ->
           T("git pull ") \o c.args[1]
             \o (IF Len(c.args) > 1 THEN T(" ") \o c.args[2] ELSE <<>>)
      [] c.fn = "execute" /\ c.args[2] = T("rebase") ->
           T("git rebase ") \o c.args[3]
      [] OTHER -> Join(c.args)

Op(fn, args) == [fn |-> fn, args |-> args]

RuleSetOf(name, r) ==
    CASE name = "filter_include" -> r.include_arg_str
      [] name = "filter_include_as" -> r.include_as_arg_str
      [] name = "filter_exclude" -> r.exclude_arg_str

FilterStages == {"filter_include", "filter_include_as", "filter_exclude"}

\* The operations a mutating stage hands to its collaborators in real mode
\* from the Runner r, all of them succeeding: a set, one sequence for each
\* argument the stage can be given, empty when real mode aborts before it
\* operates.
RealOperations(name, r) ==
    CASE name = "change_to_repo_root" ->
           {<<Op("env::set_current_dir", <<r.repo_root_dir>>)>>}
      [] name = "make_and_checkout_orphan_branch" ->
           IF ~IsSome(r.repo) THEN {}
           ELSE {<<Op("make_orphan_branch_and_checkout", <<b>>),
                   Op("remove_index_and_files", <<>>)>> : b \in OrphanBranches}
      [] name = "populate_empty_branch_with_remote_commits" ->
           IF ~IsSome(r.repo) THEN {}
           ELSE IF IsSome(r.input_branch)
             THEN {<<Op("merge_branches", <<Unwrap(r.input_branch)>>)>>}
           ELSE IF ~IsSome(r.repo_file.remote_repo) THEN {}
           ELSE {<<Op("pull", <<Unwrap(r.repo_file.remote_repo)>>
                                \o r.repo_file.remote_branch)>>}
      [] name \in FilterStages ->
           IF ~IsSome(RuleSetOf(name, r)) THEN {<<>>}
           ELSE IF ~IsSome(r.output_branch) THEN {}
           ELSE {<<Op("execute",
                      <<T("git"), T("filter-repo")>> \o Unwrap(RuleSetOf(name, r))
                        \o <<T("--refs"), Unwrap(r.output_branch), T("--force")>>)>>}
      [] name = "rebase" ->
           IF ~IsSome(r.repo_original_ref) THEN {<<>>}
           ELSE {<<Op("execute", <<T("git"), T("rebase"),
                                   Replace(Unwrap(r.repo_original_ref),
                                           RefsHeads)>>)>>}

\* the lines of a stage's output that are commands, its log lines left out
LogLines ==
    {"rebasing onto ", "Failed to get repo original ref. Not going to rebase"}

Commands(ls) == SelectSeq(ls, LAMBDA l : l[1] \notin LogLines)

\* the calls cs are the first calls of the operations ops, argument by argument
FirstCallsOf(cs, ops) ==
    /\ Len(cs) <= Len(ops)
    /\ \A i \in DOMAIN cs : cs[i].fn = ops[i].fn /\ cs[i].args = ops[i].args

\* C11: from every Runner state in which real mode operates, a mutating
\* stage run in dry-run prints exactly the command lines of the operations
\* real mode performs from that state, with the same arguments: checkout-orphan
\* and remove-all for the same branch, the filter's argument vector, the
\* rebase onto the same upstream, the merge of the same branch, the pull of
\* the same remote repository and remote branch.
C11_DryRunPrintsWhatRealModeDoes ==
    (stage \in MutatingStages /\ proc.st = "running"
       /\ RealOperations(stage, runner) # {})
      => \E ops \in RealOperations(stage, runner) :
           IF runner.dry_run
             THEN Commands(out) = [i \in DOMAIN ops |-> CommandLine(ops[i])]
             ELSE FirstCallsOf(calls, ops)

\* C12 as stated: with dry_run set every mutating stage returns the Runner
\* without ending the process, whatever the Runner state (repository handle
\* absent, no remote_repo, output branch unresolved).
C12_DryRunStagesNeverAbort ==
    (runner.dry_run /\ stage \in MutatingStages) => proc.st = "running"

\* the dry-run invocation of the stage just run ended in a panic that the
\* Runner state explains: history population without a repository handle, or
\* with neither an input branch nor a remote_repo to name; a filter stage whose
\* rule set is present while the output branch is unresolved
DryRunAbortExplained ==
    \/ /\ stage = "populate_empty_branch_with_remote_commits"
       /\ \/ ~IsSome(runner.repo)
          \/ ~IsSome(runner.input_branch) /\ ~IsSome(runner.repo_file.remote_repo)
    \/ /\ stage \in FilterStages
       /\ IsSome(RuleSetOf(stage, runner))
       /\ ~IsSome(runner.output_branch)

\* C12 amended: with dry_run set a mutating stage makes no call that could
\* fail and never exits; change_to_repo_root, make_and_checkout_orphan_branch
\* and rebase always return the Runner; history population aborts exactly when
\* the repository handle is absent or there is neither an input branch nor a
\* remote_repo, and a filter stage aborts exactly when its rule set is present
\* and the output branch is unresolved; every other invocation returns.
C12_DryRunAbortsOnlyOnMissingState ==
    (runner.dry_run /\ stage \in MutatingStages)
      => /\ calls = <<>>
         /\ proc.st \in {"running", "panicked"}
         /\ proc.st = "panicked" <=> DryRunAbortExplained

\* a dry-run include pass that found its rule set but no output branch
C12_Witness ==
    /\ runner.dry_run
    /\ stage = "filter_include"
    /\ IsSome(runner.include_arg_str)
    /\ proc.st = "panicked"

----------------------------------------------------------------------------
(* The read-only checks                                                    *)

ReadOnlyChecks == {"verify_dependencies", "safe_to_proceed", "get_repo_file"}

Queries(cs) == [i \in DOMAIN cs |-> Op(cs[i].fn, cs[i].args)]

GitVersion == Op("executed_successfully", <<T("git"), T("--version")>>)
FilterRepoVersion ==
    Op("executed_successfully", <<T("git"), T("filter-repo"), T("--version")>>)
LsFilesModified == Op("execute", <<T("git"), T("ls-files"), T("--modified")>>)
ParseRepoFile == Op("parse_repo_file", <<RepoFilePath>>)

Continues == [st |-> "running", code |-> 0]
ExitsWith(status) == [st |-> "exited", code |-> status]
AbortsFatally == [st |-> "panicked", code |-> 101]

\* What a check asks and how it ends, as the environment alone decides it:
\* answers are the results of the queries made, modified is whether the
\* working tree has a modified tracked file.  The simulation flag is no
\* argument.
CheckByEnvironment(name, answers, modified) ==
    CASE name = "verify_dependencies" ->
           IF answers[1] # "ok"
             THEN [queries |-> <<GitVersion>>, outcome |-> AbortsFatally]
           ELSE [queries |-> <<GitVersion, FilterRepoVersion>>,
                 outcome |-> IF answers[2] = "ok" THEN Continues
                             ELSE AbortsFatally]
      [] name = "safe_to_proceed" ->
           [queries |-> <<LsFilesModified>>,
            outcome |-> IF answers[1] # "ok" THEN AbortsFatally
                        ELSE IF modified THEN ExitsWith(1)
                        ELSE Continues]
      [] name = "get_repo_file" ->
           [queries |-> <<ParseRepoFile>>,
            outcome |-> IF answers[1] = "ok" THEN Continues ELSE AbortsFatally]

\* C13: the dependency check, the safety check and the repo-file load make
\* the same external queries and reach the same outcome (continue, exit with
\* status 1, fatal abort) with dry_run set as without it: what is asked and
\* how the stage ends is decided by the environment's answers alone.
C13_ChecksRunForRealInDryRun ==
    stage \in ReadOnlyChecks
      => CheckByEnvironment(stage, [i \in DOMAIN calls |-> calls[i].res],
                            repo.modified)
           = [queries |-> Queries(calls),
              outcome |-> [st |-> proc.st, code |-> proc.code]]

\* a dry run that probed both tools and was ended by the missing filter engine
C13_Witness ==
    /\ runner.dry_run
    /\ stage = "verify_dependencies"
    /\ Len(calls) = 2
    /\ calls[2].res # "ok"
    /\ proc.st = "panicked"

Probe(cs, tool) ==
    {i \in DOMAIN cs : cs[i].fn = "executed_successfully" /\ cs[i].args = tool}

\* C14: verify_dependencies aborts fatally when the git binary cannot be
\* invoked and when git filter-repo cannot be invoked; it returns only after
\* both version probes succeeded, and then with the Runner unchanged; in
\* every case it leaves the repository and the working directory alone.
C14_DependenciesVerified ==
    [][ stage' = "verify_dependencies"
          => LET git == Probe(calls', <<T("git"), T("--version")>>)
                 engine == Probe(calls', <<T("git"), T("filter-repo"),
                                            T("--version")>>)
                 ok(S) == S # {} /\ \A i \in S : calls'[i].res = "ok"
             IN  /\ git # {}
                 /\ ~ok(git) => proc'.st = "panicked"
                 /\ (engine # {} /\ ~ok(engine)) => proc'.st = "panicked"
                 /\ proc'.st = "running" <=> (ok(git) /\ ok(engine))
                 /\ proc'.st # "exited"
                 /\ runner' = runner
                 /\ repo' = repo
                 /\ cwd' = cwd ]_vars

\* git answers, git filter-repo does not: the run is over
C14_Witness ==
    /\ stage = "verify_dependencies"
    /\ Len(calls) = 2
    /\ calls[1].res = "ok"
    /\ calls[2].res = "err"
    /\ proc.st = "panicked"
    /\ ~runner.dry_run

----------------------------------------------------------------------------
(* The filter passes                                                       *)

\* C16: a filter stage invokes the filtering engine at most once, and only
\* if its own rule set is present; with its rule set absent it calls nothing,
\* prints nothing and returns the Runner as it was, whatever the other two
\* rule sets are; when it invokes the engine the vector is
\* generate_filter_arg_vec of its own rule set and the output branch, and in
\* real mode with the rule set and the output branch present it does invoke it.
C16_FilterPassesIndependent ==
    [][ stage' \in FilterStages
          => LET rule == RuleSetOf(stage', runner)
             IN  /\ Len(calls') <= 1
                 /\ calls' # <<>>
                      => /\ IsSome(rule)
                         /\ IsSome(runner.output_branch)
                         /\ calls'[1].fn = "execute"
                         /\ calls'[1].args
                              = generate_filter_arg_vec(Unwrap(rule),
                                                        Unwrap(runner.output_branch))
                 /\ ~IsSome(rule)
                      => /\ calls' = <<>>
                         /\ out' = <<>>
                         /\ runner' = runner
                         /\ proc' = proc
                         /\ repo' = repo
                         /\ cwd' = cwd
                 /\ (IsSome(rule) /\ IsSome(runner.output_branch)
                       /\ ~runner.dry_run)
                      => Len(calls') = 1 ]_vars

\* the include-as pass skipped in real mode while the include and exclude
\* rule sets are both present
C16_Witness ==
    /\ stage = "filter_include_as"
    /\ ~runner.dry_run
    /\ ~IsSome(runner.include_as_arg_str)
    /\ IsSome(runner.include_arg_str)
    /\ IsSome(runner.exclude_arg_str)
    /\ IsSome(runner.output_branch)
    /\ calls = <<>>
    /\ out = <<>>
    /\ proc.st = "running"

----------------------------------------------------------------------------
(* The orphan branch                                                       *)

\* C19: in real mode the index/working-tree cleanup is called only after
\* the orphan branch was created and checked out successfully; a failed
\* checkout aborts the process with the cleanup never called and the
\* repository as it was; and the stage returns only when the checkout and
\* then the cleanup both succeeded.
C19_CleanupOnlyAfterCheckout ==
    [][ (stage' = "make_and_checkout_orphan_branch" /\ ~runner.dry_run)
          => /\ \A i \in DOMAIN calls' :
                  calls'[i].fn = "remove_index_and_files"
                    => /\ i = 2
                       /\ calls'[1].fn = "make_orphan_branch_and_checkout"
                       /\ calls'[1].res = "ok"
             /\ (calls' # <<>> /\ calls'[1].res # "ok")
                  => /\ calls'[1].fn = "make_orphan_branch_and_checkout"
                     /\ Len(calls') = 1
                     /\ proc'.st = "panicked"
                     /\ repo' = repo
             /\ proc'.st = "running"
                  => /\ Len(calls') = 2
                     /\ calls'[1].fn = "make_orphan_branch_and_checkout"
                     /\ calls'[2].fn = "remove_index_and_files"
                     /\ calls'[1].res = "ok"
                     /\ calls'[2].res = "ok"
                     /\ repo'.index = "empty" ]_vars

\* a checkout that failed on a tree with modified files: nothing was removed
C19_Witness ==
    /\ stage = "make_and_checkout_orphan_branch"
    /\ ~runner.dry_run
    /\ Len(calls) = 1
    /\ calls[1].res = "err"
    /\ proc.st = "panicked"
    /\ repo.index = "tracked"
    /\ repo.modified

----------------------------------------------------------------------------
(* Reconciliation                                                          *)

\* the text with its prefix removed, once, the remainder left as it is
StripPrefix(text, prefix) ==
    IF text # <<>> /\ Head(text) = prefix THEN Tail(text) ELSE text

\* the upstream the rebase stage just run named: to the command it executed,
\* or on the command line it printed in dry-run
UpstreamPassed ==
    IF runner.dry_run
      THEN Tail(out[Len(out)])
      ELSE calls[1].args[3]

\* C17: when the rebase stage runs with a captured original ref, the
\* upstream it passes to the rebase command is that ref with the
\* "refs/heads/" prefix stripped and the rest of the name intact, also for a
\* name that contains "refs/heads/" again after the prefix.
C17_UpstreamIsRefWithoutPrefix ==
    (stage = "rebase" /\ IsSome(runner.repo_original_ref))
      => UpstreamPassed = StripPrefix(Unwrap(runner.repo_original_ref), RefsHeads)

\* C20: with no original ref captured (no repository handle when
\* save_current_ref ran, or a detached HEAD) the rebase stage executes no
\* command in real mode and prints no command in dry-run: it prints its
\* notice, leaves the terminal status and every other field of the Runner as
\* they were, leaves the repository alone and returns.  (Whether a rebase was
\* requested is not read by the stage.)
C20_NoRefNoRebase ==
    [][ (stage' = "rebase" /\ ~IsSome(runner.repo_original_ref))
          => /\ calls' = <<>>
             /\ out' = <<T("Failed to get repo original ref. Not going to rebase")>>
             /\ Commands(out') = <<>>
             /\ runner'.status = runner.status
             /\ runner' = runner
             /\ proc' = proc
             /\ repo' = repo
             /\ cwd' = cwd ]_vars

\* a dry run on a detached HEAD: the repository was found, its ref looked up,
\* and the rebase stage had nothing to rebase onto
C20_Witness ==
    /\ stage = "rebase"
    /\ runner.dry_run
    /\ IsSome(runner.repo)
    /\ ~IsSome(runner.repo_original_ref)
    /\ ~IsSome(repo.head)
    /\ steps >= 3
    /\ proc.st = "running"

----------------------------------------------------------------------------
(* The rule arrays                                                         *)

\* C15: panic_if_array_invalid returns for an absent rule set and aborts for
\* every present one that breaks the validity rule: a present set that may
\* be single (include, exclude) is accepted iff its length is 1 or an even
\* number >= 2, one that may not (include_as) iff its length is an even
\* number >= 2, and a present empty set is rejected under either rule.
C15_InvalidArrayAborts ==
    ret # NoRet =>
      LET n == Len(Unwrap(call.var))
          even == n >= 2 /\ n % 2 = 0
      IN  /\ ~IsSome(call.var) => ret = Returned("unit")
          /\ (IsSome(call.var) /\ call.can_be_single)
               => (ret = Returned("unit") <=> (n = 1 \/ even))
          /\ (IsSome(call.var) /\ ~call.can_be_single)
               => (ret = Returned("unit") <=> even)
          /\ (IsSome(call.var) /\ n = 0) => ret = Aborted
          /\ ret \in {Returned("unit"), Aborted}

\* a present include_as set of one element: rejected
C15_Witness ==
    /\ ret = Aborted
    /\ call.varname = "include_as"
    /\ ~call.can_be_single
    /\ IsSome(call.var)
    /\ Len(Unwrap(call.var)) = 1

----------------------------------------------------------------------------
(* Trailing separators                                                     *)

\* the text with every trailing c removed
RECURSIVE WithoutTrailing(_, _)
WithoutTrailing(s, c) ==
    IF s # <<>> /\ s[Len(s)] = c
      THEN WithoutTrailing(SubSeq(s, 1, Len(s) - 1), c)
      ELSE s

\* the last non-empty path segment of the locator, up to its first '.'
LastSegmentName(loc, sep) ==
    TextBeforeFirst(TextAfterLast(WithoutTrailing(loc, sep), sep), Dot)

\* C18: for a recognized locator that ends in one or more native separators
\* and has a named last segment, the helper trims all of them and returns
\* the last non-empty path segment up to its first '.': "https://host/repo/"
\* and "https://host/repo//" both yield "repo".
C18_AllTrailingSeparatorsTrimmed ==
    ( /\ ret # NoRet
      /\ is_valid_remote_repo(call.remote_repo)
      /\ ends_with(call.remote_repo, call.main_separator)
      /\ contains(WithoutTrailing(call.remote_repo, call.main_separator),
                  call.main_separator)
      /\ LastSegmentName(call.remote_repo, call.main_separator) # <<>> )
      => ret = Returned(LastSegmentName(call.remote_repo, call.main_separator))

----------------------------------------------------------------------------
(* The shape of a returned name                                            *)

\* C21 as stated: a returned project name is non-empty and contains no '.'
\* and neither path separator, for every locator, those included that mix
\* both separators so that the retry with the other separator is used.
C21_NameHasNoSeparator ==
    (ret # NoRet /\ ret.kind = "ok")
      => /\ ret.val # <<>>
         /\ ~contains(ret.val, Dot)
         /\ ~contains(ret.val, Slash)
         /\ ~contains(ret.val, Backslash)

\* C21 amended: a returned project name is non-empty, contains no '.', and
\* does not contain the separator of the attempt that yielded it: not the
\* native separator when the native attempt yields a name, not the other
\* separator when the retry is used.  It may contain the separator of the
\* attempt that did not yield it.
C21_NameHasNoSeparatorOfItsAttempt ==
    (ret # NoRet /\ ret.kind = "ok")
      => LET sep == call.main_separator
             native == NameWith(call.remote_repo, sep)
         IN  /\ ret.val # <<>>
             /\ ~contains(ret.val, Dot)
             /\ native # <<>> => ~contains(ret.val, sep)
             /\ native = <<>> => ~contains(ret.val, OtherSeparator(sep))

\* "ssh://\//" where '/' is native: the native attempt yields no name, the
\* retry with '\' yields "//"
C21_Witness ==
    /\ call.main_separator = Slash
    /\ call.remote_repo = Ssh \o <<Backslash, Slash, Slash>>
    /\ ret = Returned(<<Slash, Slash>>)

====
